---- MODULE Spec2Model ----
(***************************************************************************)
(* A model of the BM25 job-matching service: the corpus builder            *)
(* (preprocess_jobs), the matcher (match_students_to_jobs), the index      *)
(* cache (build_or_load_bm25) and the request path that uses them          *)
(* (main.match_students, job_matcher.startup_load / run_bm25_match).       *)
(*                                                                         *)
(* Text is a sequence of lexemes (words, numbers, punctuation, markup      *)
(* tags); whitespace is what separates lexemes.  Python values of the      *)
(* loosely typed request payload are tagged records.  Positions kept in    *)
(* job_index are 0-based as in the source.                                 *)
(***************************************************************************)
EXTENDS Integers, Sequences, FiniteSets, TLC

\* ------------------------------------------------------------------ bounds
MaxJobs == 2
MaxStudents == 2
MaxTopN == 2

\* ------------------------------------------------------- program constants
RoleWeight == 5
PrefWeight == 2
SnippetLen == 150
DefaultTopN == 10

\* ------------------------------------------------------------ Python values
Str(t) == [kind |-> "str", s |-> t]
List(xs) == [kind |-> "list", items |-> xs]
Dict(ps) == [kind |-> "dict", pairs |-> ps]
PyNone == [kind |-> "none"]
PyInt == [kind |-> "int"]

\* dict.get(key, default)
Get(d, key, default) == IF key \in DOMAIN d THEN d[key] ELSE default

RECURSIVE Concat(_)
\* " ".join(texts): the lexemes of every text, in order
Concat(texts) ==
  IF texts = <<>> THEN <<>> ELSE Head(texts) \o Concat(Tail(texts))

RECURSIVE Repeat(_, _)
\* list * n
Repeat(xs, n) == IF n <= 0 THEN <<>> ELSE xs \o Repeat(xs, n - 1)

\* ------------------------------------------------------------------- text
Markup == {"<p>", "</p>"}
Alpha == {"data", "nurse", "care", "p", "Data", "Nurse"}

\* str.lower(), lexeme by lexeme
LowerLex(l) ==
  CASE l = "Data" -> "data"
    [] l = "Nurse" -> "nurse"
    [] OTHER -> l
Lower(text) == [i \in 1..Len(text) |-> LowerLex(text[i])]

\* BeautifulSoup(html, 'html.parser').get_text(separator=' ', strip=True)
get_text(html) == SelectSeq(html, LAMBDA l : l \notin Markup)

\* str.replace(',', ' ')
ReplaceCommas(text) == SelectSeq(text, LAMBDA l : l # ",")

\* nltk word_tokenize: a word or a number is one token, punctuation is a
\* token of its own, and a markup tag left in the text splits into its
\* brackets and its name
TokenizeLex(l) ==
  CASE l = "<p>" -> <<"<", "p", ">">>
    [] l = "</p>" -> <<"<", "/p", ">">>
    [] OTHER -> <<l>>
word_tokenize(text) == Concat([i \in 1..Len(text) |-> TokenizeLex(text[i])])

\* str.isalpha()
isalpha(t) == t \in Alpha

\* word_tokenize(text.lower()) filtered by isalpha
AlphaTokens(text) == SelectSeq(word_tokenize(Lower(text)), isalpha)

\* ----------------------------------------------------------- job records
JobA == [title |-> <<"Data">>, tagsAndSkills |-> <<"data", ",", "care">>,
         jobDescription |-> <<"<p>", "data", "</p>">>, companyName |-> <<"Acme">>]
JobB == [jobDescription |-> <<"<p>", "Nurse", "care", "</p>">>]
JobC == [title |-> <<>>, tagsAndSkills |-> <<>>, jobDescription |-> <<>>]
JobD == [title |-> <<"42">>, tagsAndSkills |-> <<",">>,
         jobDescription |-> <<"<p>", "</p>">>, companyName |-> <<"Numbers">>]
JobPool == <<JobA, JobB, JobC, JobD>>

RECURSIVE SeqsUpTo(_, _)
\* every sequence of at most n elements of S
SeqsUpTo(S, n) ==
  IF n = 0 THEN {<<>>}
  ELSE LET shorter == SeqsUpTo(S, n - 1)
       IN shorter \cup {Append(q, x) : q \in shorter, x \in S}

JobLists == {[i \in 1..Len(q) |-> JobPool[q[i]]] : q \in SeqsUpTo(1..Len(JobPool), MaxJobs)}

\* -------------------------------------------------------- preprocess_jobs
\* lines 70-77: the text the tokens of one record are taken from
combined_text(job) ==
  Get(job, "title", <<>>)
    \o ReplaceCommas(Get(job, "tagsAndSkills", <<>>))
    \o get_text(Get(job, "jobDescription", <<>>))

\* the loop without its two `continue`s: every record is indexed
RECURSIVE PreprocessLoopSkipsNothing(_, _, _, _)
PreprocessLoopSkipsNothing(jobList, idx, texts, index) ==
  IF idx >= Len(jobList) THEN [job_texts |-> texts, job_index |-> index]
  ELSE PreprocessLoopSkipsNothing(jobList, idx + 1,
         Append(texts, AlphaTokens(combined_text(jobList[idx + 1]))),
         Append(index, idx))

RECURSIVE PreprocessLoop(_, _, _, _)
\* the for loop of preprocess_jobs from position idx on
PreprocessLoop(jobList, idx, texts, index) ==
  IF idx >= Len(jobList) THEN [job_texts |-> texts, job_index |-> index]
  ELSE LET text == combined_text(jobList[idx + 1])
           tokens == AlphaTokens(text)
       IN IF text = <<>> \/ tokens = <<>>
          THEN PreprocessLoop(jobList, idx + 1, texts, index)
          ELSE PreprocessLoop(jobList, idx + 1, Append(texts, tokens),
                              Append(index, idx))

preprocess_jobs(jobList) ==
  LET r == PreprocessLoop(jobList, 0, <<>>, <<>>)
  IN IF r.job_texts = <<>>
     THEN [exc |-> "ValueError", job_texts |-> <<>>, job_index |-> <<>>]
     ELSE [exc |-> "none", job_texts |-> r.job_texts, job_index |-> r.job_index]

\* ------------------------------------------------------------- BM25 index
\* build_bm25_model: BM25Okapi(job_texts) keeps the corpus size, the
\* document lengths and the per-document term counts
build_bm25_model(texts) ==
  [corpus_size |-> Len(texts),
   doc_len |-> [i \in 1..Len(texts) |-> Len(texts[i])],
   docs |-> texts]

Count(tok, doc) == Cardinality({i \in 1..Len(doc) : doc[i] = tok})

RECURSIVE SumSeq(_)
SumSeq(ns) == IF ns = <<>> THEN 0 ELSE Head(ns) + SumSeq(Tail(ns))

\* the contribution of query token q to document i: idf * tf * (k1 + 1) /
\* (tf + k1 * (1 - b + b * dl / avgdl)) with k1 = 3/2 and b = 3/4, in
\* integers (the fraction scaled by 8 * total length, the quotient by
\* 100); the idf is the odds (N - df + 1/2) / (df + 1/2) the library
\* takes the logarithm of
TermScore(index, q, i) ==
  LET tf == Count(q, index.docs[i])
      N == index.corpus_size
      total == SumSeq(index.doc_len)
      df == Cardinality({d \in 1..N : Count(q, index.docs[d]) > 0})
      idf == ((2 * (N - df) + 1) * 10) \div (2 * df + 1)
  IN IF tf = 0 THEN 0
     ELSE idf * ((100 * 20 * total * tf)
                   \div (8 * total * tf + 3 * total + 9 * index.doc_len[i] * N))

\* bm25.get_scores(query_tokens): one score per indexed document
get_scores(index, query_tokens) ==
  [i \in 1..index.corpus_size |->
     SumSeq([k \in 1..Len(query_tokens) |-> TermScore(index, query_tokens[k], i)])]

\* ------------------------------------------------- match_students_to_jobs
Unnamed == <<"U", "n", "n", "a", "m", "e", "d">>

\* an f-string field: the text of a str, "None" for None
Format(v) ==
  CASE v.kind = "str" -> v.s
    [] v.kind = "none" -> <<"N", "o", "n", "e">>
    [] OTHER -> <<"?">>

RECURSIVE Strip(_)
\* str.strip() on a sequence of characters
Strip(cs) ==
  IF cs = <<>> THEN <<>>
  ELSE IF Head(cs) = " " THEN Strip(Tail(cs))
  ELSE IF cs[Len(cs)] = " " THEN Strip(SubSeq(cs, 1, Len(cs) - 1))
  ELSE cs

\* lines 146-148
student_name(student) ==
  LET full == Strip(Format(Get(student, "first_name", Str(<<>>)))
                      \o <<" ">>
                      \o Format(Get(student, "last_name", Str(<<>>))))
  IN IF full = <<>> THEN Unnamed ELSE full

\* key.lower() in ['job_roles', 'job_titles']
KeyLower(k) ==
  CASE k = "Job_Titles" -> "job_titles"
    [] k = "JOB_ROLES" -> "job_roles"
    [] OTHER -> k
IsRoleKey(k) == KeyLower(k) \in {"job_roles", "job_titles"}

RECURSIVE Bucket(_, _)
\* lines 155-165: the values of the categories on the role side (role =
\* TRUE) or on the other side, flattened in the order of the mapping
Bucket(pairs, role) ==
  IF pairs = <<>> THEN <<>>
  ELSE LET key == Head(pairs)[1]
           value == Head(pairs)[2]
           here == IF IsRoleKey(key) # role THEN <<>>
                   ELSE IF value.kind = "list" THEN value.items
                   ELSE IF value.kind = "str" THEN <<value>>
                   ELSE <<>>
       IN here \o Bucket(Tail(pairs), role)

\* lines 150-170: query_terms, or the TypeError of list + non-list
query_terms(student) ==
  LET job_preferences == Get(student, "job_preferences", Dict(<<>>))
      pairs == IF job_preferences.kind = "dict" THEN job_preferences.pairs ELSE <<>>
      job_roles == Bucket(pairs, TRUE)
      job_preferences_list == Bucket(pairs, FALSE)
      skills == Get(student, "skills", List(<<>>))
      interests == Get(student, "interests", List(<<>>))
  IN IF skills.kind # "list" \/ interests.kind # "list"
     THEN [exc |-> "TypeError", terms |-> <<>>]
     ELSE [exc |-> "none",
           terms |-> Repeat(job_roles, RoleWeight)
                       \o Repeat(job_preferences_list, PrefWeight)
                       \o skills.items \o interests.items]

\* lines 175-177, for terms that are all text
query_tokens(terms) ==
  AlphaTokens(Concat([i \in 1..Len(terms) |-> terms[i].s]))

RECURSIVE InsertRanked(_, _)
\* one pair put into a list ordered by descending score, after the pairs
\* that have its score
InsertRanked(ranked, pair) ==
  IF ranked = <<>> THEN <<pair>>
  ELSE IF Head(ranked)[2] >= pair[2]
       THEN <<Head(ranked)>> \o InsertRanked(Tail(ranked), pair)
       ELSE <<pair>> \o ranked

\* an insertion that puts a pair before the pairs that have its score
RECURSIVE InsertRankedFirst(_, _)
InsertRankedFirst(ranked, pair) ==
  IF ranked = <<>> THEN <<pair>>
  ELSE IF Head(ranked)[2] > pair[2]
       THEN <<Head(ranked)>> \o InsertRankedFirst(Tail(ranked), pair)
       ELSE <<pair>> \o ranked

\* a descending sort that turns the order of equal scores around
RECURSIVE SortedDescUnstable(_)
SortedDescUnstable(pairs) ==
  IF pairs = <<>> THEN <<>>
  ELSE InsertRankedFirst(SortedDescUnstable(SubSeq(pairs, 1, Len(pairs) - 1)),
                         pairs[Len(pairs)])

RECURSIVE SortedDesc(_)
\* sorted(pairs, key=lambda x: x[1], reverse=True): stable
SortedDesc(pairs) ==
  IF pairs = <<>> THEN <<>>
  ELSE InsertRanked(SortedDesc(SubSeq(pairs, 1, Len(pairs) - 1)),
                    pairs[Len(pairs)])

Min(a, b) == IF a < b THEN a ELSE b
Max(a, b) == IF a < b THEN b ELSE a

\* zip(job_index, scores): as long as the shorter of the two
Zip(index, scores) ==
  [i \in 1..Min(Len(index), Len(scores)) |-> <<index[i], scores[i]>>]

\* xs[:n], n of either sign
SliceTo(xs, n) ==
  SubSeq(xs, 1, IF n >= 0 THEN Min(n, Len(xs)) ELSE Max(Len(xs) + n, 0))

\* description_text[:150] + ('...' if len(description_text) > 150 else '')
Snippet(text) ==
  SubSeq(text, 1, Min(SnippetLen, Len(text)))
    \o (IF Len(text) > SnippetLen THEN <<"...">> ELSE <<>>)

\* lines 185-197: the match built for one ranked pair; idx is kept beside
\* the fields of the source to tell which record a match came from
MatchOf(jobList, pair) ==
  LET job == jobList[pair[1] + 1]
  IN [company |-> Get(job, "companyName", <<"Unknown Company">>),
      title |-> Get(job, "title", <<"No Title">>),
      score |-> pair[2],
      snippet |-> Snippet(get_text(Get(job, "jobDescription", <<>>))),
      idx |-> pair[1]]

\* the loop body with a result mapping that keeps the first entry of a
\* name instead of overwriting it
MatchOneStudentKeepsFirst(acc, student, jobList, index, jindex, n) ==
  LET name == student_name(student)
      qt == query_terms(student)
      top_matches == SliceTo(SortedDesc(Zip(jindex,
                        get_scores(index, query_tokens(qt.terms)))), n)
      put(list) == [k \in (DOMAIN acc) \cup {name} |->
                      IF k \in DOMAIN acc THEN acc[k] ELSE list]
  IN IF qt.exc # "none" THEN [exc |-> qt.exc, all_matches |-> acc]
     ELSE IF qt.terms = <<>> THEN [exc |-> "none", all_matches |-> put(<<>>)]
     ELSE IF \E i \in 1..Len(qt.terms) : qt.terms[i].kind # "str"
          THEN [exc |-> "TypeError", all_matches |-> acc]
     ELSE IF \E i \in 1..Len(top_matches) : top_matches[i][1] >= Len(jobList)
          THEN [exc |-> "IndexError", all_matches |-> acc]
     ELSE [exc |-> "none",
           all_matches |-> put([i \in 1..Len(top_matches) |->
                                  MatchOf(jobList, top_matches[i])])]

\* lines 144-199: one iteration of the loop over students, on the result
\* mapping acc; exc names the exception that leaves the loop
MatchOneStudent(acc, student, jobList, index, jindex, n) ==
  LET name == student_name(student)
      qt == query_terms(student)
      top_matches == SliceTo(SortedDesc(Zip(jindex,
                        get_scores(index, query_tokens(qt.terms)))), n)
      put(list) == [k \in (DOMAIN acc) \cup {name} |->
                      IF k = name THEN list ELSE acc[k]]
  IN IF qt.exc # "none" THEN [exc |-> qt.exc, all_matches |-> acc]
     ELSE IF qt.terms = <<>> THEN [exc |-> "none", all_matches |-> put(<<>>)]
     ELSE IF \E i \in 1..Len(qt.terms) : qt.terms[i].kind # "str"
          THEN [exc |-> "TypeError", all_matches |-> acc]
     ELSE IF \E i \in 1..Len(top_matches) : top_matches[i][1] >= Len(jobList)
          THEN [exc |-> "IndexError", all_matches |-> acc]
     ELSE [exc |-> "none",
           all_matches |-> put([i \in 1..Len(top_matches) |->
                                  MatchOf(jobList, top_matches[i])])]

RECURSIVE match_students_to_jobs(_, _, _, _, _, _)
\* the whole call on a list of students, from the result mapping acc; an
\* exception of the loop is raised again as HTTPException carrying its
\* message (lines 202-205)
match_students_to_jobs(acc, studentList, jobList, index, jindex, n) ==
  IF studentList = <<>> THEN [exc |-> "none", detail |-> "none", all_matches |-> acc]
  ELSE LET r == MatchOneStudent(acc, Head(studentList), jobList, index, jindex, n)
       IN IF r.exc # "none"
          THEN [exc |-> "HTTPException", detail |-> r.exc, all_matches |-> <<>>]
          ELSE match_students_to_jobs(r.all_matches, Tail(studentList),
                                      jobList, index, jindex, n)

RECURSIVE SplitPlus(_, _, _)
\* str.split("+"), each part stripped: the parts of text between "+"
\* lexemes, cur being the part under way
SplitPlus(text, cur, parts) ==
  IF text = <<>> THEN Append(parts, cur)
  ELSE IF Head(text) = "+" THEN SplitPlus(Tail(text), <<>>, Append(parts, cur))
  ELSE SplitPlus(Tail(text), Append(cur, Head(text)), parts)

RECURSIVE SetKey(_, _, _)
\* d[key] = value on the pairs of a dict: in place when the key is there,
\* at the end when it is not
SetKey(pairs, key, value) ==
  IF pairs = <<>> THEN << <<key, value>> >>
  ELSE IF Head(pairs)[1] = key THEN << <<key, value>> >> \o Tail(pairs)
  ELSE <<Head(pairs)>> \o SetKey(Tail(pairs), key, value)

\* main.py lines 65-67:
\* student.setdefault("job_preferences", {})["interests"] = [...]
AddInterests(student, interests) ==
  LET parts == SplitPlus(interests, <<>>, <<>>)
      value == List([i \in 1..Len(parts) |-> Str(parts[i])])
      old == Get(student, "job_preferences", Dict(<<>>))
  IN IF old.kind # "dict" THEN [exc |-> "TypeError", student |-> student]
     ELSE [exc |-> "none",
           student |-> [k \in (DOMAIN student) \cup {"job_preferences"} |->
                          IF k = "job_preferences"
                          THEN Dict(SetKey(old.pairs, "interests", value))
                          ELSE student[k]]]

\* --------------------------------------------------------- student records
StudentAB == [first_name |-> Str(<<"A">>), last_name |-> Str(<<"B">>),
              job_preferences |-> Dict(<< <<"job_roles", List(<<Str(<<"Data">>)>>)>> >>),
              skills |-> List(<<Str(<<"care">>)>>), interests |-> List(<<>>)]
StudentABEmpty == [first_name |-> Str(<<" ", "A">>), last_name |-> Str(<<"B">>),
                   skills |-> List(<<>>), interests |-> List(<<>>)]
StudentDigits == [job_preferences |-> List(<<Str(<<"data">>)>>),
                  skills |-> List(<<Str(<<"42">>)>>), interests |-> List(<<>>)]
StudentTitles == [first_name |-> Str(<<" ">>), last_name |-> Str(<<>>),
                  job_preferences |->
                    Dict(<< <<"Job_Titles", Str(<<"Nurse">>)>>,
                            <<"location", List(<<Str(<<"care">>)>>)>>,
                            <<"remote", PyInt>> >>)]
StudentSkillsNone == [first_name |-> Str(<<"A">>), last_name |-> Str(<<"B">>),
                      skills |-> PyNone]
StudentSkillsText == [first_name |-> Str(<<"C">>), skills |-> Str(<<"data">>)]
StudentInterestsInt == [first_name |-> Str(<<"C">>), interests |-> List(<<PyInt>>)]
StudentPool == <<StudentAB, StudentABEmpty, StudentDigits, StudentTitles,
                 StudentSkillsNone, StudentSkillsText, StudentInterestsInt>>

\* ------------------------------------------------------------------ state
VARIABLES
  jobs,         \* the job records handed to preprocess_jobs and to the matcher
  top_n,        \* match_students_to_jobs' top_n
  students,     \* the students the loop of match_students_to_jobs has taken
  mpc,          \* start, preprocessed, matching, returned, raised
  job_texts,    \* preprocess_jobs' token lists
  job_index,    \* preprocess_jobs' positions
  bm25,         \* the BM25Okapi model
  all_matches,  \* match_students_to_jobs' result mapping
  exc           \* the exception a raised call ended with

mvars == <<jobs, top_n, students, mpc, job_texts, job_index, bm25, all_matches, exc>>

VARIABLES
  f_bm25,       \* the file bm25_model.pkl of the cache directory
  f_index,      \* the file job_index.pkl of the cache directory
  f_matches,    \* the file student_job_matches.pkl
  g_jobs,       \* main.py's global jobs
  g_bm25,       \* main.py's global bm25
  g_job_index,  \* main.py's global job_index
  _JOBS,        \* job_matcher's module-level cache of the jobs
  _BM25,        \* job_matcher's module-level cache of the model
  _JOB_INDEX,   \* job_matcher's module-level cache of the index map
  th,           \* per request thread: its position and its local variables
  torn          \* the last store into the cache files was cut short

svars == <<f_bm25, f_index, f_matches, g_jobs, g_bm25, g_job_index,
           _JOBS, _BM25, _JOB_INDEX, th, torn>>
vars == <<mvars, svars>>

NumThreads == 2
Threads == 1..NumThreads

NoModel == build_bm25_model(<<>>)

\* a file: whether it exists, how much of its pickle is on disk (empty,
\* partial: not deserializable, full), the value a full pickle holds, and
\* the thread that wrote it last
NoFile(dummy) == [exists |-> FALSE, data |-> "empty", val |-> dummy, owner |-> 0]
Truncated(dummy, t) == [exists |-> TRUE, data |-> "empty", val |-> dummy, owner |-> t]
Garbled(dummy, t) == [exists |-> TRUE, data |-> "partial", val |-> dummy, owner |-> t]
Full(v, t) == [exists |-> TRUE, data |-> "full", val |-> v, owner |-> t]

\* a module-level global: None, or a value
Unset(dummy) == [set |-> FALSE, val |-> dummy]
Value(v) == [set |-> TRUE, val |-> v]

IdleThread ==
  [pc |-> "idle", students |-> <<>>, jobs |-> <<>>, bm25 |-> NoModel,
   job_index |-> <<>>, ret |-> "main", hit |-> FALSE, fl1 |-> "none",
   fl2 |-> "none", matches |-> <<>>, analysed |-> <<>>, exc |-> "none"]

ServerStart ==
  /\ g_jobs = Unset(<<>>) /\ g_bm25 = Unset(NoModel) /\ g_job_index = Unset(<<>>)
  /\ _JOBS = Unset(<<>>) /\ _BM25 = Unset(NoModel) /\ _JOB_INDEX = Unset(<<>>)
  /\ th = [t \in Threads |-> IdleThread]

ServerIdle ==
  /\ f_bm25 = NoFile(NoModel) /\ f_index = NoFile(<<>>) /\ f_matches = NoFile(<<>>)
  /\ ServerStart
  /\ torn = FALSE

MatcherIdle ==
  /\ jobs = <<>> /\ top_n = 0 /\ students = <<>> /\ mpc = "off"
  /\ job_texts = <<>> /\ job_index = <<>> /\ bm25 = NoModel
  /\ all_matches = <<>> /\ exc = "none"

InitMatch ==
  /\ jobs \in JobLists
  /\ top_n \in -1..MaxTopN
  /\ students = <<>>
  /\ mpc = "start"
  /\ job_texts = <<>>
  /\ job_index = <<>>
  /\ bm25 = NoModel
  /\ all_matches = <<>>
  /\ exc = "none"
  /\ ServerIdle

\* job_texts, job_index = preprocess_jobs(jobs)
PreprocessJobs ==
  /\ mpc = "start"
  /\ LET r == preprocess_jobs(jobs)
     IN /\ job_texts' = r.job_texts
        /\ job_index' = r.job_index
        /\ exc' = r.exc
        /\ mpc' = IF r.exc = "none" THEN "preprocessed" ELSE "raised"
  /\ UNCHANGED <<jobs, top_n, students, bm25, all_matches, svars>>

\* bm25 = build_bm25_model(job_texts)
BuildBm25Model ==
  /\ mpc = "preprocessed"
  /\ bm25' = build_bm25_model(job_texts)
  /\ mpc' = "matching"
  /\ UNCHANGED <<jobs, top_n, students, job_texts, job_index, all_matches, exc, svars>>

\* one iteration of match_students_to_jobs' loop, on the next student of
\* the input; an exception ends the call with HTTPException and no result
MatchStudent(student) ==
  /\ mpc = "matching"
  /\ Len(students) < MaxStudents
  /\ students' = Append(students, student)
  /\ LET r == MatchOneStudent(all_matches, student, jobs, bm25, job_index, top_n)
     IN IF r.exc = "none"
        THEN /\ all_matches' = r.all_matches
             /\ UNCHANGED <<mpc, exc>>
        ELSE /\ all_matches' = <<>>
             /\ mpc' = "raised"
             /\ exc' = "HTTPException"
  /\ UNCHANGED <<jobs, top_n, job_texts, job_index, bm25, svars>>

\* return all_matches
MatchReturn ==
  /\ mpc = "matching"
  /\ mpc' = "returned"
  /\ UNCHANGED <<jobs, top_n, students, job_texts, job_index, bm25, all_matches, exc, svars>>

NextMatch ==
  \/ PreprocessJobs
  \/ BuildBm25Model
  \/ \E i \in 1..Len(StudentPool) : MatchStudent(StudentPool[i])
  \/ MatchReturn

SpecMatch == InitMatch /\ [][NextMatch]_vars


\* --------------------------------------------------------- request path
\* the job lists a job source (MongoDB, the JSONL files) may hold
SourceLists == << <<JobA, JobB>>, <<JobB>> >>

\* the request bodies: students and the interests string
Requests ==
  << [students |-> <<StudentAB>>, interests |-> <<"care", "+", "Data">>],
     [students |-> <<StudentTitles>>, interests |-> <<>>] >>

Goto(t, where) == th' = [th EXCEPT ![t].pc = where]

\* an exception leaves the handler: main.py's except turns it into a
\* 500 response carrying its message
Fail(t, e) == th' = [th EXCEPT ![t] = [IdleThread EXCEPT !.pc = "m_error", !.exc = e]]

\* main.py lines 56-67: the request arrives and the shared interests are
\* added to every student
Receive(t, r) ==
  /\ th[t].pc = "idle"
  /\ LET req == Requests[r]
         added == [i \in 1..Len(req.students) |->
                     AddInterests(req.students[i], req.interests)]
     IN IF \E i \in 1..Len(added) : added[i].exc # "none"
        THEN Fail(t, "TypeError")
        ELSE th' = [th EXCEPT ![t].pc = "m_check",
                              ![t].students = [i \in 1..Len(added) |-> added[i].student]]
  /\ UNCHANGED <<mvars, f_bm25, f_index, f_matches, g_jobs, g_bm25, g_job_index,
                 _JOBS, _BM25, _JOB_INDEX, torn>>

\* main.py line 70
MainCheck(t) ==
  /\ th[t].pc = "m_check"
  /\ IF ~g_bm25.set \/ ~g_job_index.set \/ ~g_jobs.set
     THEN Goto(t, "m_mongo")
     ELSE Goto(t, "r_check")
  /\ UNCHANGED <<mvars, f_bm25, f_index, f_matches, g_jobs, g_bm25, g_job_index,
                 _JOBS, _BM25, _JOB_INDEX, torn>>

\* main.py line 72: jobs = load_jobs_from_mongo()
MainLoadJobs(t, jobList) ==
  /\ th[t].pc = "m_mongo"
  /\ g_jobs' = Value(jobList)
  /\ Goto(t, "m_call")
  /\ UNCHANGED <<mvars, f_bm25, f_index, f_matches, g_bm25, g_job_index,
                 _JOBS, _BM25, _JOB_INDEX, torn>>

\* main.py line 73: the call build_or_load_bm25(jobs) on the global jobs
MainCall(t) ==
  /\ th[t].pc = "m_call"
  /\ th' = [th EXCEPT ![t].pc = "bl_exists", ![t].jobs = g_jobs.val,
                      ![t].ret = "main", ![t].hit = FALSE]
  /\ UNCHANGED <<mvars, f_bm25, f_index, f_matches, g_jobs, g_bm25, g_job_index,
                 _JOBS, _BM25, _JOB_INDEX, torn>>

\* build_or_load_bm25 line 114: both files exist, or not
CacheExists(t) ==
  /\ th[t].pc = "bl_exists"
  /\ IF f_bm25.exists /\ f_index.exists
     THEN th' = [th EXCEPT ![t].pc = "bl_load1", ![t].hit = TRUE]
     ELSE Goto(t, "bl_build")
  /\ UNCHANGED <<mvars, f_bm25, f_index, f_matches, g_jobs, g_bm25, g_job_index,
                 _JOBS, _BM25, _JOB_INDEX, torn>>

\* line 116: bm25 = pickle.load(f1)
CacheLoadModel(t) ==
  /\ th[t].pc = "bl_load1"
  /\ IF f_bm25.data = "full"
     THEN th' = [th EXCEPT ![t].pc = "bl_load2", ![t].bm25 = f_bm25.val]
     ELSE Fail(t, "UnpicklingError")
  /\ UNCHANGED <<mvars, f_bm25, f_index, f_matches, g_jobs, g_bm25, g_job_index,
                 _JOBS, _BM25, _JOB_INDEX, torn>>

\* lines 117-119: job_index = pickle.load(f2), and the pair is returned
CacheLoadIndex(t) ==
  /\ th[t].pc = "bl_load2"
  /\ IF f_index.data = "full"
     THEN th' = [th EXCEPT ![t].pc = "bl_ret", ![t].job_index = f_index.val]
     ELSE Fail(t, "UnpicklingError")
  /\ UNCHANGED <<mvars, f_bm25, f_index, f_matches, g_jobs, g_bm25, g_job_index,
                 _JOBS, _BM25, _JOB_INDEX, torn>>

\* lines 121-122: preprocess_jobs and build_bm25_model
CacheBuild(t) ==
  /\ th[t].pc = "bl_build"
  /\ LET r == preprocess_jobs(th[t].jobs)
     IN IF r.exc # "none"
        THEN Fail(t, r.exc)
        ELSE th' = [th EXCEPT ![t].pc = "bl_open1",
                              ![t].bm25 = build_bm25_model(r.job_texts),
                              ![t].job_index = r.job_index]
  /\ UNCHANGED <<mvars, f_bm25, f_index, f_matches, g_jobs, g_bm25, g_job_index,
                 _JOBS, _BM25, _JOB_INDEX, torn>>

\* line 124, open(bm25_path, "wb"): the file is created or cut to nothing
CacheOpenModel(t) ==
  /\ th[t].pc = "bl_open1"
  /\ f_bm25' = Truncated(NoModel, t)
  /\ torn' = FALSE
  /\ th' = [th EXCEPT ![t].pc = "bl_open2", ![t].fl1 = "none", ![t].fl2 = "none"]
  /\ UNCHANGED <<mvars, f_index, f_matches, g_jobs, g_bm25, g_job_index,
                 _JOBS, _BM25, _JOB_INDEX>>

\* line 124, open(index_path, "wb")
CacheOpenIndex(t) ==
  /\ th[t].pc = "bl_open2"
  /\ f_index' = Truncated(<<>>, t)
  /\ Goto(t, "bl_dump1")
  /\ UNCHANGED <<mvars, f_bm25, f_matches, g_jobs, g_bm25, g_job_index,
                 _JOBS, _BM25, _JOB_INDEX, torn>>

\* what a buffered pickle.dump of v leaves on disk: nothing yet, a part
\* of the pickle, or all of it
Dumped(f, t, how, v, dummy) ==
  CASE how = "none" -> f
    [] how = "some" -> Garbled(dummy, t)
    [] how = "all" -> Full(v, t)

\* what closing the file leaves on disk: the rest of the pickle is
\* written where the handle stands, which completes the pickle unless
\* another handle has cut or written the file since the first part
Closed(f, t, how, v, dummy) ==
  CASE how = "all" -> f
    [] how = "none" -> Full(v, t)
    [] how = "some" -> IF f.owner = t THEN Full(v, t) ELSE Garbled(dummy, t)

\* line 125: pickle.dump(bm25, f1)
CacheDumpModel(t, how) ==
  /\ th[t].pc = "bl_dump1"
  /\ f_bm25' = Dumped(f_bm25, t, how, th[t].bm25, NoModel)
  /\ th' = [th EXCEPT ![t].pc = "bl_dump2", ![t].fl1 = how]
  /\ UNCHANGED <<mvars, f_index, f_matches, g_jobs, g_bm25, g_job_index,
                 _JOBS, _BM25, _JOB_INDEX, torn>>

\* line 126: pickle.dump(job_index, f2)
CacheDumpIndex(t, how) ==
  /\ th[t].pc = "bl_dump2"
  /\ f_index' = Dumped(f_index, t, how, th[t].job_index, <<>>)
  /\ th' = [th EXCEPT ![t].pc = "bl_close2", ![t].fl2 = how]
  /\ UNCHANGED <<mvars, f_bm25, f_matches, g_jobs, g_bm25, g_job_index,
                 _JOBS, _BM25, _JOB_INDEX, torn>>

\* the end of the with block closes f2 first
CacheCloseIndex(t) ==
  /\ th[t].pc = "bl_close2"
  /\ f_index' = Closed(f_index, t, th[t].fl2, th[t].job_index, <<>>)
  /\ Goto(t, "bl_close1")
  /\ UNCHANGED <<mvars, f_bm25, f_matches, g_jobs, g_bm25, g_job_index,
                 _JOBS, _BM25, _JOB_INDEX, torn>>

\* then f1, and the pair is returned (line 129)
CacheCloseModel(t) ==
  /\ th[t].pc = "bl_close1"
  /\ f_bm25' = Closed(f_bm25, t, th[t].fl1, th[t].bm25, NoModel)
  /\ Goto(t, "bl_ret")
  /\ UNCHANGED <<mvars, f_index, f_matches, g_jobs, g_bm25, g_job_index,
                 _JOBS, _BM25, _JOB_INDEX, torn>>

\* the thread after build_or_load_bm25 has returned: the call's locals
\* are gone
Returned(me, where) ==
  [IdleThread EXCEPT !.pc = where, !.students = me.students]

\* the caller assigns the returned pair: main.py line 73, or
\* job_matcher.py line 43
CacheReturn(t) ==
  /\ th[t].pc = "bl_ret"
  /\ IF th[t].ret = "main"
     THEN /\ g_bm25' = Value(th[t].bm25)
          /\ g_job_index' = Value(th[t].job_index)
          /\ th' = [th EXCEPT ![t] = Returned(th[t], "r_check")]
          /\ UNCHANGED <<_BM25, _JOB_INDEX>>
     ELSE /\ _BM25' = Value(th[t].bm25)
          /\ _JOB_INDEX' = Value(th[t].job_index)
          /\ th' = [th EXCEPT ![t] = Returned(th[t], "r_match")]
          /\ UNCHANGED <<g_bm25, g_job_index>>
  /\ UNCHANGED <<mvars, f_bm25, f_index, f_matches, g_jobs, _JOBS, torn>>

\* run_bm25_match line 54
RunCheck(t) ==
  /\ th[t].pc = "r_check"
  /\ IF ~_JOBS.set \/ ~_BM25.set \/ ~_JOB_INDEX.set
     THEN Goto(t, "s_load")
     ELSE Goto(t, "r_match")
  /\ UNCHANGED <<mvars, f_bm25, f_index, f_matches, g_jobs, g_bm25, g_job_index,
                 _JOBS, _BM25, _JOB_INDEX, torn>>

\* startup_load lines 23-43: the JSONL files are read, _JOBS is set, and
\* build_or_load_bm25(jobs, cache_dir=base_dir) is called
StartupLoad(t, jobList) ==
  /\ th[t].pc = "s_load"
  /\ _JOBS' = Value(jobList)
  /\ th' = [th EXCEPT ![t].pc = "bl_exists", ![t].jobs = jobList,
                      ![t].ret = "startup", ![t].hit = FALSE]
  /\ UNCHANGED <<mvars, f_bm25, f_index, f_matches, g_jobs, g_bm25, g_job_index,
                 _BM25, _JOB_INDEX, torn>>

\* run_bm25_match line 59
RunMatch(t) ==
  /\ th[t].pc = "r_match"
  /\ LET r == match_students_to_jobs(<<>>, th[t].students, _JOBS.val, _BM25.val,
                                     _JOB_INDEX.val, DefaultTopN)
     IN IF r.exc # "none"
        THEN Fail(t, r.detail)
        ELSE th' = [th EXCEPT ![t].pc = "r_open", ![t].matches = r.all_matches]
  /\ UNCHANGED <<mvars, f_bm25, f_index, f_matches, g_jobs, g_bm25, g_job_index,
                 _JOBS, _BM25, _JOB_INDEX, torn>>

\* run_bm25_match line 64: open(pkl_path, "wb")
RunOpenPickle(t) ==
  /\ th[t].pc = "r_open"
  /\ f_matches' = Truncated(<<>>, 0)
  /\ Goto(t, "r_dump")
  /\ UNCHANGED <<mvars, f_bm25, f_index, g_jobs, g_bm25, g_job_index,
                 _JOBS, _BM25, _JOB_INDEX, torn>>

\* lines 65-68: the matches are dumped, the file is closed, and
\* (matches, pkl_path) returned
RunDumpPickle(t) ==
  /\ th[t].pc = "r_dump"
  /\ f_matches' = Full(th[t].matches, 0)
  /\ Goto(t, "m_analyze")
  /\ UNCHANGED <<mvars, f_bm25, f_index, g_jobs, g_bm25, g_job_index,
                 _JOBS, _BM25, _JOB_INDEX, torn>>

\* main.py line 83: analyze_matches(pickle_path, ...) reads the matches
\* from the pickle at pickle_path
Analyze(t) ==
  /\ th[t].pc = "m_analyze"
  /\ IF f_matches.data = "full"
     THEN th' = [th EXCEPT ![t].pc = "m_upload", ![t].analysed = f_matches.val]
     ELSE Fail(t, "AnalysisError")
  /\ UNCHANGED <<mvars, f_bm25, f_index, f_matches, g_jobs, g_bm25, g_job_index,
                 _JOBS, _BM25, _JOB_INDEX, torn>>

\* main.py lines 86-99: the upload and the response
Respond(t) ==
  /\ th[t].pc = "m_upload"
  /\ th' = [th EXCEPT ![t] = IdleThread]
  /\ UNCHANGED <<mvars, f_bm25, f_index, f_matches, g_jobs, g_bm25, g_job_index,
                 _JOBS, _BM25, _JOB_INDEX, torn>>

\* main.py lines 101-103: the 500 response
RespondError(t) ==
  /\ th[t].pc = "m_error"
  /\ th' = [th EXCEPT ![t] = IdleThread]
  /\ UNCHANGED <<mvars, f_bm25, f_index, f_matches, g_jobs, g_bm25, g_job_index,
                 _JOBS, _BM25, _JOB_INDEX, torn>>

StorePcs == {"bl_open2", "bl_dump1", "bl_dump2", "bl_close2", "bl_close1"}

\* the process is killed and started again: the globals are None again,
\* what the handles had not written is lost, the files stay as they are
Crash ==
  /\ torn' = (torn \/ \E t \in Threads : th[t].pc \in StorePcs)
  /\ g_jobs' = Unset(<<>>) /\ g_bm25' = Unset(NoModel) /\ g_job_index' = Unset(<<>>)
  /\ _JOBS' = Unset(<<>>) /\ _BM25' = Unset(NoModel) /\ _JOB_INDEX' = Unset(<<>>)
  /\ th' = [t \in Threads |-> IdleThread]
  /\ UNCHANGED <<mvars, f_bm25, f_index, f_matches>>

Flushes == {"none", "some", "all"}

Step(t, rs) ==
  \/ \E r \in rs : Receive(t, r)
  \/ MainCheck(t)
  \/ \E i \in 1..Len(SourceLists) : MainLoadJobs(t, SourceLists[i])
  \/ MainCall(t)
  \/ CacheExists(t)
  \/ CacheLoadModel(t)
  \/ CacheLoadIndex(t)
  \/ CacheBuild(t)
  \/ CacheOpenModel(t)
  \/ CacheOpenIndex(t)
  \/ \E how \in Flushes : CacheDumpModel(t, how)
  \/ \E how \in Flushes : CacheDumpIndex(t, how)
  \/ CacheCloseIndex(t)
  \/ CacheCloseModel(t)
  \/ CacheReturn(t)
  \/ RunCheck(t)
  \/ \E i \in 1..Len(SourceLists) : StartupLoad(t, SourceLists[i])
  \/ RunMatch(t)
  \/ RunOpenPickle(t)
  \/ RunDumpPickle(t)
  \/ Analyze(t)
  \/ Respond(t)
  \/ RespondError(t)

InitServer == MatcherIdle /\ ServerIdle

\* one request at a time, the process killed and restarted at any point
NextCache == Crash \/ Step(1, 1..Len(Requests))
SpecCache == InitServer /\ [][NextCache]_vars

\* the request a client sends to worker thread t
RequestOf(t) == ((t - 1) % Len(Requests)) + 1

\* the requests of the server's worker threads, interleaved
NextServer == \E t \in Threads : Step(t, {RequestOf(t)})
SpecServer == InitServer /\ [][NextServer]_vars

\* ----------------------------------------------------------------- claims
PreprocessReturned == mpc \in {"preprocessed", "matching", "returned"} \/ exc = "HTTPException"
MatchRunning == mpc \in {"matching", "returned"}

RecordTokens(k) == AlphaTokens(combined_text(jobs[k + 1]))

\* C1: whenever preprocess_jobs returns, job_texts and job_index have the
\* same length, every job_texts[i] is the non-empty alphabetic token list of
\* record job_index[i], every position is valid, positions are strictly
\* increasing, and a record is indexed exactly if it yields a token.
C1_CorpusIndexCorrespondence ==
  PreprocessReturned =>
    /\ Len(job_texts) = Len(job_index)
    /\ \A i \in 1..Len(job_index) :
         /\ job_index[i] \in 0..(Len(jobs) - 1)
         /\ job_texts[i] # <<>>
         /\ \A k \in 1..Len(job_texts[i]) : isalpha(job_texts[i][k])
         /\ job_texts[i] = RecordTokens(job_index[i])
    /\ \A i, j \in 1..Len(job_index) : i < j => job_index[i] < job_index[j]
    /\ \A k \in 0..(Len(jobs) - 1) :
         (\E i \in 1..Len(job_index) : job_index[i] = k) <=> RecordTokens(k) # <<>>

\* a record without tokens was skipped and the record after it indexed
C1_Witness ==
  /\ PreprocessReturned
  /\ Len(jobs) = 2
  /\ RecordTokens(0) = <<>>
  /\ job_index = <<1>>

\* student i is the last of the input with its display name
LastWithName(i) ==
  \A j \in (i + 1)..Len(students) :
    student_name(students[j]) # student_name(students[i])

QueryOf(student) == query_tokens(query_terms(student).terms)

PosInIndex(idx) == CHOOSE p \in 1..Len(job_index) : job_index[p] = idx

\* C2: for a student with a non-empty query and top_n >= 0 the match list
\* has min(top_n, indexed documents) entries, in non-increasing score, and
\* among equal scores in the order of job_index.
C2_TopNSortedStable ==
  (MatchRunning /\ top_n >= 0) =>
    \A i \in 1..Len(students) :
      (LastWithName(i) /\ QueryOf(students[i]) # <<>>) =>
        LET list == all_matches[student_name(students[i])]
        IN /\ Len(list) = Min(top_n, Len(job_index))
           /\ \A a, b \in 1..Len(list) :
                a < b =>
                  /\ list[a].score >= list[b].score
                  /\ list[a].score = list[b].score =>
                       PosInIndex(list[a].idx) < PosInIndex(list[b].idx)

\* a student with a non-empty query whose two matches tie on a positive
\* score
C2_Witness ==
  /\ mpc = "returned"
  /\ top_n = 2
  /\ Len(job_index) = 2
  /\ \E i \in 1..Len(students) :
       /\ LastWithName(i)
       /\ QueryOf(students[i]) # <<>>
       /\ LET list == all_matches[student_name(students[i])]
          IN /\ Len(list) = 2
             /\ list[1].score = list[2].score
             /\ list[1].score > 0
             /\ list[1].idx < list[2].idx

\* C3: a student whose query has no token gets an empty match list.
C3_EmptyQueryEmptyList ==
  MatchRunning =>
    \A i \in 1..Len(students) :
      (LastWithName(i) /\ QueryOf(students[i]) = <<>>) =>
        Len(all_matches[student_name(students[i])]) = 0

\* the list student i gets when matched alone
AloneList(i) ==
  MatchOneStudent(<<>>, students[i], jobs, bm25, job_index, top_n)
    .all_matches[student_name(students[i])]

\* C7: the result has exactly one entry per display name, holding the list
\* of the last student of the input with that name.
C7_LastNameWins ==
  MatchRunning =>
    /\ DOMAIN all_matches = {student_name(students[i]) : i \in 1..Len(students)}
    /\ \A i \in 1..Len(students) :
         LastWithName(i) =>
           all_matches[student_name(students[i])] = AloneList(i)

\* two students of one name: the first with matches, the last with none
C7_Witness ==
  /\ mpc = "returned"
  /\ Len(students) = 2
  /\ student_name(students[1]) = student_name(students[2])
  /\ Len(MatchOneStudent(<<>>, students[1], jobs, bm25, job_index, top_n)
           .all_matches[student_name(students[1])]) > 0
  /\ Len(all_matches[student_name(students[2])]) = 0
  /\ Cardinality(DOMAIN all_matches) = 1

\* a student record of one of the shapes the claim lists
Malformed(student) ==
  \/ Get(student, "job_preferences", Dict(<<>>)).kind # "dict"
  \/ "skills" \notin DOMAIN student
  \/ "interests" \notin DOMAIN student
  \/ Get(student, "skills", List(<<>>)).kind \in {"none", "str"}
  \/ Get(student, "interests", List(<<>>)).kind \in {"none", "str"}
  \/ \E f \in {"skills", "interests"} :
       LET v == Get(student, f, List(<<>>))
       IN v.kind = "list" /\ \E k \in 1..Len(v.items) : v.items[k].kind # "str"

\* C8: a batch holding a malformed student is not failed: the call does
\* not raise.
C8_MalformedStudentDoesNotFailBatch ==
  (\E i \in 1..Len(students) : Malformed(students[i])) =>
    ~(mpc = "raised" /\ exc = "HTTPException")

\* thread t is inside build_or_load_bm25
InBuildOrLoad(t) ==
  th[t].pc \in {"bl_exists", "bl_load1", "bl_load2", "bl_build", "bl_open1"} \cup StorePcs

\* thread t has taken the branch of a cache hit (line 114 found both files)
OnCacheHit(t) ==
  \/ th[t].pc \in {"bl_load1", "bl_load2"}
  \/ th[t].pc = "bl_ret" /\ th[t].hit

\* model and index map are those preprocess_jobs and build_bm25_model
\* make of the job list jobList
BuiltFrom(model, index, jobList) ==
  LET r == preprocess_jobs(jobList)
  IN r.exc = "none" /\ index = r.job_index /\ model = build_bm25_model(r.job_texts)

\* C4: a cached pair is returned only if both files exist and deserialize;
\* a file that is missing or does not deserialize is a cache miss that is
\* rebuilt, and the call does not fail on it.
C4_BadCacheIsRebuilt ==
  \A t \in Threads :
    /\ (th[t].pc = "bl_ret" /\ th[t].hit) =>
         /\ f_bm25.data = "full" /\ th[t].bm25 = f_bm25.val
         /\ f_index.data = "full" /\ th[t].job_index = f_index.val
    /\ ~(th[t].pc = "m_error" /\ th[t].exc = "UnpicklingError")

\* C5: after a store that was interrupted between opening the two files
\* and closing them, no call takes the pair for a cache hit; a hit returns
\* a model and a map that one store wrote completely.
C5_InterruptedStoreNeverHit ==
  \A t \in Threads :
    /\ OnCacheHit(t) => ~torn
    /\ (th[t].pc = "bl_ret" /\ th[t].hit) =>
         \E i \in 1..Len(SourceLists) :
           BuiltFrom(th[t].bm25, th[t].job_index, SourceLists[i])

\* C6: at most one thread is inside build_or_load_bm25 at a time, so no
\* two threads are between opening and closing the cache files together.
C6_OneBuildOrLoadAtATime ==
  \A t, u \in Threads :
    t # u =>
      /\ ~(InBuildOrLoad(t) /\ InBuildOrLoad(u))
      /\ ~(th[t].pc \in StorePcs /\ th[u].pc \in StorePcs)

\* C9: the pair build_or_load_bm25 returns for job list J has a map as
\* long as the model's documents, each value a position of J naming the
\* record the document was built from; matching never resolves a position
\* outside J.
C9_ReturnedPairFitsJobs ==
  \A t \in Threads :
    /\ th[t].pc = "bl_ret" =>
         /\ Len(th[t].job_index) = th[t].bm25.corpus_size
         /\ \A i \in 1..Len(th[t].job_index) :
              /\ th[t].job_index[i] \in 0..(Len(th[t].jobs) - 1)
              /\ th[t].bm25.docs[i] =
                   AlphaTokens(combined_text(th[t].jobs[th[t].job_index[i] + 1]))
    /\ ~(th[t].pc = "m_error" /\ th[t].exc = "IndexError")

\* C10: the matches a request's analysis reads are the matches computed
\* from that request's students.
C10_RequestOwnsItsMatches ==
  \A t \in Threads :
    th[t].pc = "m_upload" => th[t].analysed = th[t].matches

====
